---- MODULE Spec2Model ----
(***************************************************************************)
(* Gen-CAD pipeline (gen_cad_pipeline.py) with its two feature generators  *)
(* (groove_generator.py, clip_generator.py).                               *)
(*                                                                         *)
(* Lengths are integers (one unit = one step of the input grid).  A        *)
(* coordinate of a built shape is the pair <<a, b>> standing for the       *)
(* number (a + b*sqrt(3))/2, so that the halves (-w/2) and the equilateral *)
(* triangle height (w*sqrt(3)/2) of the generators are exact.              *)
(*                                                                         *)
(* The geometry kernel (OCC) is external: every kernel call whose outcome  *)
(* the code tests (IsDone, IsValid, Mass, status, a raised exception) is a *)
(* nondeterministic choice in the action that makes the call.              *)
(***************************************************************************)
EXTENDS Integers, Sequences, FiniteSets, TLC

\* ------------------------------------------------------------------ bounds
\* largest groove width / depth / height / length drawn as an input
MaxDim == 2
\* largest clip height drawn as an input
MaxClipHeight == 2
\* how many of the reference centroids the model keeps (the list has 7)
NumCentroids == 2

\* ---------------------------------------------------------------- options
\* Python's None is the empty tuple, a present value v is <<v>>.
NoneVal == <<>>
Some(v) == <<v>>
IsNone(o) == o = <<>>
The(o) == o[1]

\* ------------------------------------------------------------ coordinates
\* <<a, b>> is (a + b*sqrt(3))/2
Num(n) == <<2 * n, 0>>
Half(n) == <<n, 0>>
CAdd(x, y) == <<x[1] + y[1], x[2] + y[2]>>
CSub(x, y) == <<x[1] - y[1], x[2] - y[2]>>
\* sign of a + b*sqrt(3): sqrt(3) is irrational, so a*a = 3*b*b only at 0
Sgn(x) ==
    LET a == x[1]
        b == x[2]
    IN  IF a = 0 /\ b = 0 THEN 0
        ELSE IF a >= 0 /\ b >= 0 THEN 1
        ELSE IF a <= 0 /\ b <= 0 THEN -1
        ELSE IF a > 0 THEN (IF a * a > 3 * b * b THEN 1 ELSE -1)
        ELSE (IF 3 * b * b > a * a THEN 1 ELSE -1)
CLess(x, y) == Sgn(CSub(x, y)) < 0
CMin(x, y) == IF CLess(y, x) THEN y ELSE x
CMax(x, y) == IF CLess(x, y) THEN y ELSE x

\* ------------------------------------------------------------- GrooveType
RECTANGULAR == "rectangular"
CIRCULAR == "circular"
SQUARE == "square"
TRIANGLE == "triangle"
GrooveType == {RECTANGULAR, CIRCULAR, SQUARE, TRIANGLE}
\* a value that is no member of the enum (run_pipeline takes any dict value)
UnknownType == "hexagon"

\* GrooveParameters: the dataclass, fillet_radius as the fraction <<num, den>>
GrooveParameters(w, d, h, l, t, f) ==
    [width |-> w, depth |-> d, height |-> h, length |-> l, type |-> t,
     fillet_radius |-> f]
NoFillet == <<0, 1>>

\* ClipParameters: the dataclass
ClipParameters(gp, h, c, r) ==
    [groove_params |-> gp, height |-> h, assembly_clearance |-> c,
     retention_offset |-> r]

\* ------------------------------------------------------- kernel primitives
\* the axis-aligned bounding box of a built shape
Shape(k, x1, x2, y1, y2, z1, z2) ==
    [tag |-> "shape", kind |-> k, xmin |-> CMin(x1, x2), xmax |-> CMax(x1, x2),
     ymin |-> CMin(y1, y2), ymax |-> CMax(y1, y2),
     zmin |-> CMin(z1, z2), zmax |-> CMax(z1, z2)]
\* BRepPrimAPI_MakeBox(P, dx, dy, dz): the box with corners P and P + (dx, dy, dz)
MakeBox(k, px, py, pz, dx, dy, dz) ==
    Shape(k, px, CAdd(px, dx), py, CAdd(py, dy), pz, CAdd(pz, dz))
\* BRepPrimAPI_MakeCylinder(axis at (0, 0, pz) along +Z, r, h)
MakeCylinder(k, pz, r, h) ==
    Shape(k, CSub(Num(0), r), r, CSub(Num(0), r), r, pz, CAdd(pz, h))
\* BRepBuilderAPI_Transform with a translation (0, dy, dz)
Translate(s, dy, dz) ==
    [s EXCEPT !.ymin = CAdd(@, dy), !.ymax = CAdd(@, dy),
              !.zmin = CAdd(@, dz), !.zmax = CAdd(@, dz)]
Raised(e) == [tag |-> "raise", exc |-> e]

\* ------------------------------------------- GrooveGenerator.create_shape
\* the triangular branch: base edge p1-p2 at Z = -d, apex p3 at Z = -d + h,
\* extruded by (0, l, 0) and then moved by (0, -l/2, 0)
CreateTriangle(p) ==
    LET w == p.width
        l == p.length
        d == p.depth
        h == <<0, w>>
        p1x == Half(-w)
        p2x == Half(w)
        p3x == Num(0)
        baseZ == Num(-d)
        apexZ == CAdd(Num(-d), h)
        prism == Shape(TRIANGLE, CMin(p1x, p3x), CMax(p2x, p3x),
                       Num(0), Num(l), baseZ, apexZ)
    IN  Translate(prism, Half(-l), Num(0))

GrooveGenerator_create_shape(p) ==
    IF p.type = RECTANGULAR THEN
        MakeBox(RECTANGULAR, Half(-p.width), Half(-p.length), Num(-p.depth),
                Num(p.width), Num(p.length), Num(p.depth))
    ELSE IF p.type = CIRCULAR THEN
        MakeCylinder(CIRCULAR, Num(-p.depth), Half(p.width), Num(p.depth))
    ELSE IF p.type = SQUARE THEN
        MakeBox(SQUARE, Half(-p.width), Half(-p.width), Num(-p.depth),
                Num(p.width), Num(p.width), Num(p.depth))
    ELSE IF p.type = TRIANGLE THEN CreateTriangle(p)
    ELSE Raised("NotImplementedError")

\* ------------------------------------------------- ClipParameters.validate
Msg(t, a) == [text |-> t, args |-> a]

\* validate with the clearance test written > instead of >=
validate_ClearanceStrict(cp) ==
    LET gw == cp.groove_params.width
        gd == cp.groove_params.depth
        clip_width == gw - cp.assembly_clearance
        clip_depth == gd - cp.retention_offset
    IN  IF cp.height <= 0 THEN
            <<FALSE, Msg("Clip height must be positive", <<>>)>>
        ELSE IF cp.assembly_clearance > gw THEN
            <<FALSE, Msg("Assembly clearance (%1mm) must be less than groove width (%2mm)",
                         <<cp.assembly_clearance, gw>>)>>
        ELSE IF cp.retention_offset >= gd THEN
            <<FALSE, Msg("Retention offset (%1mm) must be less than groove depth (%2mm)",
                         <<cp.retention_offset, gd>>)>>
        ELSE IF clip_width <= 0 THEN
            <<FALSE, Msg("Calculated clip width (%1mm) must be positive", <<clip_width>>)>>
        ELSE IF clip_depth <= 0 THEN
            <<FALSE, Msg("Calculated clip depth (%1mm) must be positive", <<clip_depth>>)>>
        ELSE <<TRUE, Msg("Valid", <<>>)>>

\* validate without the two tests of the retention offset
validate_NoOffsetCheck(cp) ==
    LET gw == cp.groove_params.width
        clip_width == gw - cp.assembly_clearance
    IN  IF cp.height <= 0 THEN
            <<FALSE, Msg("Clip height must be positive", <<>>)>>
        ELSE IF cp.assembly_clearance >= gw THEN
            <<FALSE, Msg("Assembly clearance (%1mm) must be less than groove width (%2mm)",
                         <<cp.assembly_clearance, gw>>)>>
        ELSE IF clip_width <= 0 THEN
            <<FALSE, Msg("Calculated clip width (%1mm) must be positive", <<clip_width>>)>>
        ELSE <<TRUE, Msg("Valid", <<>>)>>

validate(cp) ==
    LET gw == cp.groove_params.width
        gd == cp.groove_params.depth
        clip_width == gw - cp.assembly_clearance
        clip_depth == gd - cp.retention_offset
    IN  IF cp.height <= 0 THEN
            <<FALSE, Msg("Clip height must be positive", <<>>)>>
        ELSE IF cp.assembly_clearance >= gw THEN
            <<FALSE, Msg("Assembly clearance (%1mm) must be less than groove width (%2mm)",
                         <<cp.assembly_clearance, gw>>)>>
        ELSE IF cp.retention_offset >= gd THEN
            <<FALSE, Msg("Retention offset (%1mm) must be less than groove depth (%2mm)",
                         <<cp.retention_offset, gd>>)>>
        ELSE IF clip_width <= 0 THEN
            <<FALSE, Msg("Calculated clip width (%1mm) must be positive", <<clip_width>>)>>
        ELSE IF clip_depth <= 0 THEN
            <<FALSE, Msg("Calculated clip depth (%1mm) must be positive", <<clip_depth>>)>>
        ELSE <<TRUE, Msg("Valid", <<>>)>>

\* ------------------------------------------ ClipGenerator.derive_from_groove
\* cache is self._derived_groove_params; the value is both returned and cached
\* derive_from_groove that leaves type at the dataclass default
derive_DefaultType(cp, cache) ==
    IF ~IsNone(cache) THEN The(cache)
    ELSE
        LET gp == cp.groove_params
            clip_width == gp.width - cp.assembly_clearance
            clip_depth == gp.depth - cp.retention_offset
        IN  GrooveParameters(
                clip_width, clip_depth, cp.height, cp.height, RECTANGULAR,
                IF gp.fillet_radius[1] > 0
                THEN <<gp.fillet_radius[1] * clip_width, gp.fillet_radius[2] * gp.width>>
                ELSE NoFillet)

\* derive_from_groove that copies the groove's length field
derive_KeepsGrooveLength(cp, cache) ==
    IF ~IsNone(cache) THEN The(cache)
    ELSE
        LET gp == cp.groove_params
            clip_width == gp.width - cp.assembly_clearance
            clip_depth == gp.depth - cp.retention_offset
        IN  GrooveParameters(
                clip_width, clip_depth, cp.height, gp.length, gp.type,
                IF gp.fillet_radius[1] > 0
                THEN <<gp.fillet_radius[1] * clip_width, gp.fillet_radius[2] * gp.width>>
                ELSE NoFillet)

\* derive_from_groove without the test of the cache
derive_Recomputes(cp, cache) ==
    LET gp == cp.groove_params
        clip_width == gp.width - cp.assembly_clearance
        clip_depth == gp.depth - cp.retention_offset
    IN  GrooveParameters(
            clip_width, clip_depth, cp.height, cp.height, gp.type,
            IF gp.fillet_radius[1] > 0
            THEN <<gp.fillet_radius[1] * clip_width, gp.fillet_radius[2] * gp.width>>
            ELSE NoFillet)

derive_from_groove(cp, cache) ==
    IF ~IsNone(cache) THEN The(cache)
    ELSE
        LET gp == cp.groove_params
            clip_width == gp.width - cp.assembly_clearance
            clip_depth == gp.depth - cp.retention_offset
        IN  GrooveParameters(
                clip_width, clip_depth, cp.height, cp.height, gp.type,
                IF gp.fillet_radius[1] > 0
                THEN <<gp.fillet_radius[1] * clip_width, gp.fillet_radius[2] * gp.width>>
                ELSE NoFillet)

\* ---------------------------------------------- ClipGenerator.create_shape
\* the shape GrooveGenerator builds from the derived parameters, moved by
\* (0, 0, -retention_offset) when the offset is not 0
ClipGenerator_create_shape(cp, derived_params) ==
    LET built == GrooveGenerator_create_shape(derived_params)
    IN  IF built.tag = "raise" THEN built
        ELSE IF cp.retention_offset # 0
        THEN Translate(built, Num(0), Num(-cp.retention_offset))
        ELSE built

\* ------------------------------------------ GrooveGenerator.place_shape
\* a placed shape: the shape, the point it was moved to, the direction its
\* local Z was turned onto, and its rotation about that direction
DefaultInPlane == "default"

\* place_shape with the tangent branch turning the shape onto the tangent
place_shape_AppliesTangent(p, s, location, normal, tangent) ==
    [shape |-> s, location |-> location, normal |-> normal,
     in_plane |-> IF ~IsNone(tangent) /\ p.type # CIRCULAR THEN The(tangent)
                  ELSE DefaultInPlane]

\* rotation of local Z onto the normal, then translation to the location; the
\* branch that reads the tangent has the body `pass`
GrooveGenerator_place_shape(p, s, location, normal, tangent) ==
    LET trsf_rot == [normal |-> normal, in_plane |-> DefaultInPlane]
        oriented == IF ~IsNone(tangent) /\ p.type # CIRCULAR THEN trsf_rot ELSE trsf_rot
    IN  [shape |-> s, location |-> location, normal |-> oriented.normal,
         in_plane |-> oriented.in_plane]

\* ClipGenerator.place_shape: GrooveGenerator(derived).place_shape(...)
ClipGenerator_place_shape(derived_params, s, location, normal, tangent) ==
    GrooveGenerator_place_shape(derived_params, s, location, normal, tangent)

\* ------------------------------------- ClipGenerator.get_dimensions_summary
get_dimensions_summary(cp, derived_params) ==
    [shape_type |-> derived_params.type, width |-> derived_params.width,
     depth |-> derived_params.depth, height |-> cp.height,
     groove_width |-> cp.groove_params.width, groove_depth |-> cp.groove_params.depth,
     assembly_clearance |-> cp.assembly_clearance,
     retention_offset |-> cp.retention_offset]

\* ================================================================== state
VARIABLES
    pc,              \* position in run_pipeline ("unit": the generators used directly)
    runtime_params,  \* the runtime_params dict
    thicken_log,     \* the calls of thicken so far: <<offset, outcome>>
    thickened_body,  \* None or the thickened solid
    last_log,        \* the last line written by log()
    groove_params,   \* None or the GrooveParameters object
    clip_params,     \* None or the ClipParameters object
    is_valid,        \* None or the pair returned by clip_params.validate()
    derived,         \* ClipGenerator._derived_groove_params
    loc_i,           \* number of target locations the placement loop has taken
    grooves_to_cut,
    clips_to_fuse,
    final_solid,     \* None or the running final solid
    stage_trace,     \* what the assembly stage now running (or last run) did
    final_valid,     \* None or the value check_validity(final_solid) returned
    status,          \* None or what writer.Write(output_path) returned
    place_log,       \* what the kernel answered for each target location taken
    performed,       \* the kinds of kernel operation run_pipeline has made
    result,          \* None or the (success, message) pair returned
    shape,           \* the shape the last direct create_shape call returned
    shape_of,        \* which generator built it
    placement,       \* what the last direct place_shape call was given and returned
    summary          \* None or what the last get_dimensions_summary call returned

vars == <<pc, runtime_params, thicken_log, thickened_body, last_log, groove_params,
          clip_params, is_valid, derived, loc_i, grooves_to_cut, clips_to_fuse,
          final_solid, stage_trace, final_valid, status, place_log, performed,
          result, shape, shape_of, placement, summary>>

pipeline_vars == <<runtime_params, thicken_log, thickened_body, last_log, loc_i,
                   grooves_to_cut, clips_to_fuse, final_solid, stage_trace,
                   final_valid, status, place_log, performed, result>>

NoShape == [tag |-> "none"]
NoPlaced == [by |-> "none"]
NoTrace == [stage |-> "none", pre_done |-> TRUE, bulk |-> "none", fallback |-> NoneVal]

\* ============================================================ run_pipeline
Abs(n) == IF n < 0 THEN -n ELSE n
Min(a, b) == IF a < b THEN a ELSE b

\* REFERENCE_CENTROIDS, each point standing for itself by its position
REFERENCE_CENTROIDS == [i \in 1..NumCentroids |-> i]
\* Python's seq[:n] for n >= 0
Take(seq, n) == SubSeq(seq, 1, Min(n, Len(seq)))
locations_to_process == Take(REFERENCE_CENTROIDS, runtime_params.groove_count)

\* the inputs a run may be given: every combination of the feature parameters
\* with one target location, and the nominal feature with every count
Thicknesses == {2}
Dims == 1..MaxDim
Clearances == -1..MaxDim
ClipHeights == 0..MaxClipHeight
Counts == 1..(NumCentroids + 1)
ParameterRuns ==
    [thickness : Thicknesses, groove_count : {1},
     groove_shape : GrooveType \cup {UnknownType},
     groove_height : {2}, groove_width : Dims, groove_depth : Dims,
     clip_height : ClipHeights, assembly_clearance : Clearances,
     retention_offset : Clearances]
CountRuns ==
    [thickness : Thicknesses, groove_count : Counts,
     groove_shape : {RECTANGULAR, TRIANGLE},
     groove_height : {2}, groove_width : {2}, groove_depth : {1},
     clip_height : {1}, assembly_clearance : {0},
     retention_offset : {0}]
\* run_pipeline checks no groove dimension: runs with a width, depth or height
\* that is not positive
DegenerateRuns ==
    [thickness : Thicknesses, groove_count : {1},
     groove_shape : {RECTANGULAR},
     groove_height : {0, 2}, groove_width : {0, 1}, groove_depth : {0, 1},
     clip_height : {1}, assembly_clearance : {-1, 0},
     retention_offset : {-1, 0}]
RuntimeParams == ParameterRuns \cup CountRuns \cup DegenerateRuns

\* a GProp_GProps() that no properties were computed into has mass 0
FreshGPropsMass == 0

\* solids: the offset that built the body, its orientation, the tools (by
\* anchor point) subtracted from and united with it, and the booleans that
\* made it, in the order they were applied
Body(offset) ==
    [offset |-> offset, reversed |-> FALSE, cut |-> {}, fused |-> {}, history |-> <<>>]
BRepAlgoAPI_Cut(body, tools) ==
    [body EXCEPT !.cut = @ \cup tools, !.history = Append(@, <<"cut", tools>>)]
BRepAlgoAPI_Fuse(body, tools) ==
    [body EXCEPT !.fused = @ \cup tools, !.history = Append(@, <<"fuse", tools>>)]
Locations(placed) == {placed[k].location : k \in 1..Len(placed)}

Return(ok, text) ==
    /\ pc' = "done"
    /\ result' = Some(<<ok, Msg(text, <<>>)>>)
Raise ==
    /\ pc' = "raised"
    /\ result' = result

Init ==
    /\ pc = "import"
    /\ runtime_params \in RuntimeParams
    /\ thicken_log = <<>>
    /\ thickened_body = NoneVal
    /\ last_log = ""
    /\ groove_params = NoneVal
    /\ clip_params = NoneVal
    /\ is_valid = NoneVal
    /\ derived = NoneVal
    /\ loc_i = 0
    /\ grooves_to_cut = <<>>
    /\ clips_to_fuse = <<>>
    /\ final_solid = NoneVal
    /\ stage_trace = NoTrace
    /\ final_valid = NoneVal
    /\ status = NoneVal
    /\ place_log = <<>>
    /\ performed = {}
    /\ result = NoneVal
    /\ shape = NoShape
    /\ shape_of = "none"
    /\ placement = NoPlaced
    /\ summary = NoneVal

\* phase 1 without the return after the failed validity check
Phase1Import_IgnoresValidity ==
    /\ pc = "import"
    /\ \E status_ok \in BOOLEAN, input_valid \in BOOLEAN :
        IF ~status_ok THEN
            /\ Return(FALSE, "Could not read STEP file.")
            /\ last_log' = "Error: Could not read file."
            /\ performed' = performed \cup {"read"}
        ELSE
            /\ pc' = "thicken_neg"
            /\ result' = result
            /\ last_log' = IF input_valid THEN "Applying thickness INWARD..."
                           ELSE "Critical Error: Input geometry corrupted."
            /\ performed' = performed \cup {"read", "check_input"}
    /\ UNCHANGED <<status, place_log, runtime_params, thicken_log, thickened_body,
                   groove_params, clip_params, is_valid, derived, loc_i,
                   grooves_to_cut, clips_to_fuse, final_solid, stage_trace,
                   final_valid, shape, shape_of, placement, summary>>

\* PHASE 1: ReadFile, TransferRoots, check_validity(input_shape)
Phase1Import ==
    /\ pc = "import"
    /\ \E status_ok \in BOOLEAN, input_valid \in BOOLEAN :
        IF ~status_ok THEN
            /\ Return(FALSE, "Could not read STEP file.")
            /\ last_log' = "Error: Could not read file."
            /\ performed' = performed \cup {"read"}
        ELSE IF ~input_valid THEN
            /\ Return(FALSE, "Input geometry corrupted.")
            /\ last_log' = "Critical Error: Input geometry corrupted."
            /\ performed' = performed \cup {"read", "check_input"}
        ELSE
            /\ pc' = "thicken_neg"
            /\ result' = result
            /\ last_log' = "Applying thickness INWARD..."
            /\ performed' = performed \cup {"read", "check_input"}
    /\ UNCHANGED <<status, place_log, runtime_params, thicken_log, thickened_body, groove_params,
                   clip_params, is_valid, derived, loc_i, grooves_to_cut,
                   clips_to_fuse, final_solid, stage_trace, final_valid,
                   shape, shape_of, placement, summary>>

\* thicken that returns builder.Shape() without testing IsDone()
thicken_IgnoresIsDone(t, is_done) == Some(Body(t))

\* the inner function thicken(shape, t): builder.Shape() if IsDone() else None
thicken(t, is_done) == IF is_done THEN Some(Body(t)) ELSE NoneVal

\* PHASE 2, first call: thicken(input_shape, -abs(thickness))
ThickenNegative ==
    /\ pc = "thicken_neg"
    /\ \E out \in {"done", "notdone", "raise"} :
        LET t == -Abs(runtime_params.thickness) IN
        /\ thicken_log' = Append(thicken_log, <<t, out>>)
        /\ performed' = performed \cup {"thicken"}
        /\ IF out = "raise" THEN
              /\ Raise
              /\ UNCHANGED <<thickened_body, last_log>>
           ELSE
              /\ thickened_body' = thicken(t, out = "done")
              /\ result' = result
              /\ IF IsNone(thickened_body')
                 THEN /\ pc' = "thicken_pos"
                      /\ last_log' = "Thickening failed with negative offset. Trying positive..."
                 ELSE /\ pc' = "volume"
                      /\ last_log' = last_log
    /\ UNCHANGED <<status, place_log, runtime_params, groove_params, clip_params, is_valid, derived,
                   loc_i, grooves_to_cut, clips_to_fuse, final_solid, stage_trace,
                    final_valid, shape, shape_of, placement, summary>>

\* PHASE 2, second call: thicken(input_shape, abs(thickness)), made when the
\* first returned None; None again returns (False, "Thickening failed.")
ThickenPositive ==
    /\ pc = "thicken_pos"
    /\ \E out \in {"done", "notdone", "raise"} :
        LET t == Abs(runtime_params.thickness) IN
        /\ thicken_log' = Append(thicken_log, <<t, out>>)
        /\ performed' = performed \cup {"thicken"}
        /\ IF out = "raise" THEN
              /\ Raise
              /\ UNCHANGED <<thickened_body, last_log>>
           ELSE
              /\ thickened_body' = thicken(t, out = "done")
              /\ IF IsNone(thickened_body')
                 THEN /\ Return(FALSE, "Thickening failed.")
                      /\ last_log' = "Critical Error: Thickening failed in both directions."
                 ELSE /\ pc' = "volume"
                      /\ result' = result
                      /\ last_log' = last_log
    /\ UNCHANGED <<status, place_log, runtime_params, groove_params, clip_params, is_valid, derived,
                   loc_i, grooves_to_cut, clips_to_fuse, final_solid, stage_trace,
                    final_valid, shape, shape_of, placement, summary>>

\* PHASE 2, end: VolumeProperties; Mass() < 0 reverses the body
VolumeCheck ==
    /\ pc = "volume"
    /\ \E mass_negative \in BOOLEAN :
        IF mass_negative
        THEN /\ thickened_body' = Some([The(thickened_body) EXCEPT !.reversed = ~@])
             /\ last_log' = "Notice: Negative Volume detected. Reversing orientation..."
        ELSE /\ thickened_body' = thickened_body
             /\ last_log' = last_log
    /\ performed' = performed \cup {"volume"}
    /\ pc' = "distance"
    /\ UNCHANGED <<status, place_log, runtime_params, thicken_log, groove_params, clip_params, is_valid,
                   derived, loc_i, grooves_to_cut, clips_to_fuse, final_solid,
                   stage_trace, final_valid, result, shape, shape_of, placement, summary>>

\* phase 3 returning a failure when the deviation is above the tolerance
GeometryCheck_DeviationFails ==
    /\ pc = "distance"
    /\ \E dev_above_tolerance \in BOOLEAN :
        IF dev_above_tolerance
        THEN /\ last_log' = "Warning: Deviation detected."
             /\ Return(FALSE, "Deviation detected.")
        ELSE /\ last_log' = "Verifying outer geometry preservation..."
             /\ pc' = "params"
             /\ result' = result
    /\ performed' = performed \cup {"distance"}
    /\ UNCHANGED <<status, place_log, runtime_params, thicken_log, thickened_body,
                   groove_params, clip_params, is_valid, derived, loc_i,
                   grooves_to_cut, clips_to_fuse, final_solid, stage_trace,
                   final_valid, shape, shape_of, placement, summary>>

\* PHASE 3: the distance input_shape - thickened_body; above 1e-3 logs a warning
GeometryCheck ==
    /\ pc = "distance"
    /\ \E dev_above_tolerance \in BOOLEAN :
        last_log' = IF dev_above_tolerance THEN "Warning: Deviation detected."
                    ELSE "Verifying outer geometry preservation..."
    /\ performed' = performed \cup {"distance"}
    /\ pc' = "params"
    /\ result' = result
    /\ UNCHANGED <<status, place_log, runtime_params, thicken_log, thickened_body,
                   groove_params, clip_params, is_valid, derived, loc_i,
                   grooves_to_cut, clips_to_fuse, final_solid, stage_trace,
                   final_valid, shape, shape_of, placement, summary>>

\* PHASE 4, lines 146-186: the parameter objects, clip_params.validate(), the
\* generators and the empty tool lists
Phase4Setup ==
    /\ pc = "params"
    /\ LET gp == GrooveParameters(
                     runtime_params.groove_width, runtime_params.groove_depth,
                     runtime_params.groove_height, runtime_params.groove_height,
                     runtime_params.groove_shape, NoFillet)
           cp == ClipParameters(gp, runtime_params.clip_height,
                                runtime_params.assembly_clearance,
                                runtime_params.retention_offset)
           v == validate(cp)
       IN  /\ groove_params' = Some(gp)
           /\ clip_params' = Some(cp)
           /\ is_valid' = Some(v)
           /\ performed' = performed \cup {"validate"}
           /\ IF ~v[1] THEN
                 /\ pc' = "done"
                 /\ result' = Some(<<FALSE, Msg("Invalid clip parameters: " \o v[2].text,
                                                v[2].args)>>)
                 /\ last_log' = "Critical Error: Invalid clip parameters"
              ELSE
                 /\ pc' = IF Len(locations_to_process) = 0 THEN "cut" ELSE "place"
                 /\ result' = result
                 /\ last_log' = "Generating Parametric Grooves..."
    /\ derived' = NoneVal
    /\ loc_i' = 0
    /\ grooves_to_cut' = <<>>
    /\ clips_to_fuse' = <<>>
    /\ UNCHANGED <<status, place_log, runtime_params, thicken_log, thickened_body, final_solid,
                   stage_trace, final_valid, shape, shape_of, placement, summary>>

\* what the kernel may answer for one target location
Normals == {"nx", "ny"}
PlaceOutcomes ==
    {<<"raise", "">>, <<"no_solution", "">>, <<"not_face", "">>, <<"no_normal", "">>}
    \cup {<<"normal", n>> : n \in Normals}

\* BRepPrimAPI_MakeBox / MakeCylinder / MakeEdge given a dimension that is not
\* positive: the kernel may build a degenerate shape or raise
PrimitiveRaises(p) ==
    IF p.width > 0 /\ p.depth > 0 /\ p.length > 0 THEN {FALSE} ELSE BOOLEAN

\* the placement loop with `break` where a location has no face or no normal
PlaceOne_SkipEndsLoop ==
    /\ pc = "place"
    /\ loc_i < Len(locations_to_process)
    /\ \E out \in PlaceOutcomes, prim_raises \in PrimitiveRaises(The(groove_params)) :
        LET closest_pnt == locations_to_process[loc_i + 1]
            normal == out[2]
            groove_shape == IF prim_raises THEN Raised("Standard_DomainError")
                            ELSE GrooveGenerator_create_shape(The(groove_params))
            placed_groove == GrooveGenerator_place_shape(
                                 The(groove_params), groove_shape, closest_pnt,
                                 normal, NoneVal)
            derived_params == derive_from_groove(The(clip_params), derived)
            clip_shape == ClipGenerator_create_shape(The(clip_params), derived_params)
            placed_clip == ClipGenerator_place_shape(
                               derived_params, clip_shape, closest_pnt, normal, NoneVal)
            next_pc == IF loc_i + 1 = Len(locations_to_process) THEN "cut" ELSE "place"
        IN  /\ place_log' = Append(place_log, out[1])
            /\ IF out[1] = "raise" THEN
                   /\ Raise
                   /\ performed' = performed \cup {"distance"}
                   /\ UNCHANGED <<loc_i, grooves_to_cut, clips_to_fuse, derived>>
               ELSE IF out[1] # "normal" THEN
                   /\ pc' = "cut"
                   /\ result' = result
                   /\ loc_i' = loc_i + 1
                   /\ performed' = performed \cup {"distance"}
                   /\ UNCHANGED <<grooves_to_cut, clips_to_fuse, derived>>
               ELSE IF groove_shape.tag = "raise" THEN
                   /\ Raise
                   /\ performed' = performed \cup {"distance", "create_shape"}
                   /\ UNCHANGED <<loc_i, grooves_to_cut, clips_to_fuse, derived>>
               ELSE IF clip_shape.tag = "raise" THEN
                   /\ Raise
                   /\ performed' = performed \cup {"distance", "create_shape", "place"}
                   /\ grooves_to_cut' = Append(grooves_to_cut, placed_groove)
                   /\ derived' = Some(derived_params)
                   /\ UNCHANGED <<loc_i, clips_to_fuse>>
               ELSE
                   /\ pc' = next_pc
                   /\ result' = result
                   /\ loc_i' = loc_i + 1
                   /\ performed' = performed \cup {"distance", "create_shape", "place"}
                   /\ grooves_to_cut' = Append(grooves_to_cut, placed_groove)
                   /\ clips_to_fuse' = Append(clips_to_fuse, placed_clip)
                   /\ derived' = Some(derived_params)
    /\ UNCHANGED <<status, runtime_params, thicken_log, thickened_body, last_log,
                   groove_params, clip_params, is_valid, final_solid, stage_trace,
                   final_valid, shape, shape_of, placement, summary>>

\* the placement loop with every clip turned onto one fixed direction
PlaceOne_ClipOwnNormal ==
    /\ pc = "place"
    /\ loc_i < Len(locations_to_process)
    /\ \E out \in PlaceOutcomes, prim_raises \in PrimitiveRaises(The(groove_params)) :
        LET closest_pnt == locations_to_process[loc_i + 1]
            normal == out[2]
            groove_shape == IF prim_raises THEN Raised("Standard_DomainError")
                            ELSE GrooveGenerator_create_shape(The(groove_params))
            placed_groove == GrooveGenerator_place_shape(
                                 The(groove_params), groove_shape, closest_pnt,
                                 normal, NoneVal)
            derived_params == derive_from_groove(The(clip_params), derived)
            clip_shape == ClipGenerator_create_shape(The(clip_params), derived_params)
            placed_clip == ClipGenerator_place_shape(
                               derived_params, clip_shape, closest_pnt, "nx", NoneVal)
            next_pc == IF loc_i + 1 = Len(locations_to_process) THEN "cut" ELSE "place"
        IN  /\ place_log' = Append(place_log, out[1])
            /\ IF out[1] = "raise" THEN
                   /\ Raise
                   /\ performed' = performed \cup {"distance"}
                   /\ UNCHANGED <<loc_i, grooves_to_cut, clips_to_fuse, derived>>
               ELSE IF out[1] # "normal" THEN
                   /\ pc' = next_pc
                   /\ result' = result
                   /\ loc_i' = loc_i + 1
                   /\ performed' = performed \cup {"distance"}
                   /\ UNCHANGED <<grooves_to_cut, clips_to_fuse, derived>>
               ELSE IF groove_shape.tag = "raise" THEN
                   /\ Raise
                   /\ performed' = performed \cup {"distance", "create_shape"}
                   /\ UNCHANGED <<loc_i, grooves_to_cut, clips_to_fuse, derived>>
               ELSE IF clip_shape.tag = "raise" THEN
                   /\ Raise
                   /\ performed' = performed \cup {"distance", "create_shape", "place"}
                   /\ grooves_to_cut' = Append(grooves_to_cut, placed_groove)
                   /\ derived' = Some(derived_params)
                   /\ UNCHANGED <<loc_i, clips_to_fuse>>
               ELSE
                   /\ pc' = next_pc
                   /\ result' = result
                   /\ loc_i' = loc_i + 1
                   /\ performed' = performed \cup {"distance", "create_shape", "place"}
                   /\ grooves_to_cut' = Append(grooves_to_cut, placed_groove)
                   /\ clips_to_fuse' = Append(clips_to_fuse, placed_clip)
                   /\ derived' = Some(derived_params)
    /\ UNCHANGED <<status, runtime_params, thicken_log, thickened_body, last_log,
                   groove_params, clip_params, is_valid, final_solid, stage_trace,
                   final_valid, shape, shape_of, placement, summary>>

\* the sequential loops of lines 232-238 and 258-264: one boolean per tool
\* against the running result, kept when IsDone() and dropped otherwise
\* PHASE 4, one iteration of the loop over locations_to_process
PlaceOne ==
    /\ pc = "place"
    /\ loc_i < Len(locations_to_process)
    /\ \E out \in PlaceOutcomes, prim_raises \in PrimitiveRaises(The(groove_params)) :
        LET closest_pnt == locations_to_process[loc_i + 1]
            normal == out[2]
            groove_shape == IF prim_raises THEN Raised("Standard_DomainError")
                            ELSE GrooveGenerator_create_shape(The(groove_params))
            placed_groove == GrooveGenerator_place_shape(
                                 The(groove_params), groove_shape, closest_pnt,
                                 normal, NoneVal)
            derived_params == derive_from_groove(The(clip_params), derived)
            clip_shape == ClipGenerator_create_shape(The(clip_params), derived_params)
            placed_clip == ClipGenerator_place_shape(
                               derived_params, clip_shape, closest_pnt, normal, NoneVal)
            next_pc == IF loc_i + 1 = Len(locations_to_process) THEN "cut" ELSE "place"
        IN  /\ place_log' = Append(place_log, out[1])
            /\ IF out[1] = "raise" THEN
                   /\ Raise
                   /\ performed' = performed \cup {"distance"}
                   /\ UNCHANGED <<loc_i, grooves_to_cut, clips_to_fuse, derived>>
               ELSE IF out[1] # "normal" THEN
                   /\ pc' = next_pc
                   /\ result' = result
                   /\ loc_i' = loc_i + 1
                   /\ performed' = performed \cup {"distance"}
                   /\ UNCHANGED <<grooves_to_cut, clips_to_fuse, derived>>
               ELSE IF groove_shape.tag = "raise" THEN
                   /\ Raise
                   /\ performed' = performed \cup {"distance", "create_shape"}
                   /\ UNCHANGED <<loc_i, grooves_to_cut, clips_to_fuse, derived>>
               ELSE IF clip_shape.tag = "raise" THEN
                   /\ Raise
                   /\ performed' = performed \cup {"distance", "create_shape", "place"}
                   /\ grooves_to_cut' = Append(grooves_to_cut, placed_groove)
                   /\ derived' = Some(derived_params)
                   /\ UNCHANGED <<loc_i, clips_to_fuse>>
               ELSE
                   /\ pc' = next_pc
                   /\ result' = result
                   /\ loc_i' = loc_i + 1
                   /\ performed' = performed \cup {"distance", "create_shape", "place"}
                   /\ grooves_to_cut' = Append(grooves_to_cut, placed_groove)
                   /\ clips_to_fuse' = Append(clips_to_fuse, placed_clip)
                   /\ derived' = Some(derived_params)
    /\ UNCHANGED <<status, runtime_params, thicken_log, thickened_body, last_log,
                   groove_params, clip_params, is_valid, final_solid, stage_trace,
                   final_valid, shape, shape_of, placement, summary>>

\* the sequential loops of lines 232-238 and 258-264: one boolean per tool
\* against the running result, kept when IsDone() and dropped otherwise
\* the sequential cut with `break` at the first boolean that is not done
RECURSIVE SequentialCut_StopsAtIncomplete(_, _, _)
SequentialCut_StopsAtIncomplete(temp_solid, tools, is_done) ==
    IF tools = <<>> \/ ~Head(is_done) THEN temp_solid
    ELSE SequentialCut_StopsAtIncomplete(
             BRepAlgoAPI_Cut(temp_solid, {Head(tools).location}),
             Tail(tools), Tail(is_done))

RECURSIVE SequentialCut(_, _, _)
SequentialCut(temp_solid, tools, is_done) ==
    IF tools = <<>> THEN temp_solid
    ELSE SequentialCut(
             IF Head(is_done) THEN BRepAlgoAPI_Cut(temp_solid, {Head(tools).location})
             ELSE temp_solid,
             Tail(tools), Tail(is_done))

RECURSIVE SequentialFuse(_, _, _)
SequentialFuse(temp_solid, tools, is_done) ==
    IF tools = <<>> THEN temp_solid
    ELSE SequentialFuse(
             IF Head(is_done) THEN BRepAlgoAPI_Fuse(temp_solid, {Head(tools).location})
             ELSE temp_solid,
             Tail(tools), Tail(is_done))

\* the pairwise pre-combination of lines 217-222 and 244-249: the first tool,
\* united with each later tool whose union IsDone()
PreCombine(tools, pre) ==
    {tools[1].location} \cup {tools[k].location : k \in {j \in 2..Len(tools) : pre[j]}}

BulkOutcomes == {"done", "incomplete", "raised"}

\* lines 212-229: final_solid = thickened_body, then the bulk cut
CutBulk ==
    /\ pc = "cut"
    /\ IF grooves_to_cut = <<>> THEN
          /\ final_solid' = thickened_body
          /\ pc' = "fuse"
          /\ UNCHANGED <<stage_trace, performed>>
       ELSE
          \E pre \in [2..Len(grooves_to_cut) -> BOOLEAN], bulk \in BulkOutcomes :
              LET tool_body == PreCombine(grooves_to_cut, pre)
                  valid_cut == bulk = "done" /\ FreshGPropsMass # 0
              IN  /\ final_solid' =
                         IF valid_cut
                         THEN Some(BRepAlgoAPI_Cut(The(thickened_body), tool_body))
                         ELSE thickened_body
                  /\ stage_trace' = [stage |-> "cut",
                                     pre_done |-> \A j \in 2..Len(grooves_to_cut) : pre[j],
                                     bulk |-> bulk, fallback |-> NoneVal]
                  /\ performed' = performed \cup {"boolean"}
                  /\ pc' = IF valid_cut THEN "fuse" ELSE "cut_fallback"
    /\ UNCHANGED <<status, place_log, runtime_params, thicken_log, thickened_body, last_log,
                   groove_params, clip_params, is_valid, derived, loc_i,
                   grooves_to_cut, clips_to_fuse, final_valid, result,
                   shape, shape_of, placement, summary>>

\* lines 231-238: the sequential cut, outside any try
CutFallback ==
    /\ pc = "cut_fallback"
    /\ \E is_done \in [1..Len(grooves_to_cut) -> BOOLEAN], raises \in BOOLEAN :
        IF raises THEN
            /\ Raise
            /\ UNCHANGED <<final_solid, stage_trace>>
        ELSE
            /\ final_solid' = Some(SequentialCut(The(thickened_body), grooves_to_cut,
                                                 is_done))
            /\ stage_trace' = [stage_trace EXCEPT !.fallback = Some(is_done)]
            /\ pc' = "fuse"
            /\ result' = result
    /\ performed' = performed \cup {"boolean"}
    /\ UNCHANGED <<status, place_log, runtime_params, thicken_log, thickened_body, last_log,
                   groove_params, clip_params, is_valid, derived, loc_i,
                   grooves_to_cut, clips_to_fuse, final_valid,
                   shape, shape_of, placement, summary>>

\* the bulk fuse applied to thickened_body instead of the cut result
FuseBulk_OnThickenedBody ==
    /\ pc = "fuse"
    /\ IF clips_to_fuse = <<>> THEN
          /\ pc' = "validate_final"
          /\ UNCHANGED <<final_solid, stage_trace, performed>>
       ELSE
          \E pre \in [2..Len(clips_to_fuse) -> BOOLEAN], bulk \in BulkOutcomes :
              LET clip_body == PreCombine(clips_to_fuse, pre)
                  valid_fuse == bulk = "done"
              IN  /\ final_solid' =
                         IF valid_fuse
                         THEN Some(BRepAlgoAPI_Fuse(The(thickened_body), clip_body))
                         ELSE final_solid
                  /\ stage_trace' = [stage |-> "fuse",
                                     pre_done |-> \A j \in 2..Len(clips_to_fuse) : pre[j],
                                     bulk |-> bulk, fallback |-> NoneVal]
                  /\ performed' = performed \cup {"boolean"}
                  /\ pc' = IF valid_fuse THEN "validate_final" ELSE "fuse_fallback"
    /\ UNCHANGED <<status, place_log, runtime_params, thicken_log, thickened_body, last_log,
                   groove_params, clip_params, is_valid, derived, loc_i,
                   grooves_to_cut, clips_to_fuse, final_valid, result,
                   shape, shape_of, placement, summary>>

\* lines 240-256: the bulk fuse
FuseBulk ==
    /\ pc = "fuse"
    /\ IF clips_to_fuse = <<>> THEN
          /\ pc' = "validate_final"
          /\ UNCHANGED <<final_solid, stage_trace, performed>>
       ELSE
          \E pre \in [2..Len(clips_to_fuse) -> BOOLEAN], bulk \in BulkOutcomes :
              LET clip_body == PreCombine(clips_to_fuse, pre)
                  valid_fuse == bulk = "done"
              IN  /\ final_solid' =
                         IF valid_fuse
                         THEN Some(BRepAlgoAPI_Fuse(The(final_solid), clip_body))
                         ELSE final_solid
                  /\ stage_trace' = [stage |-> "fuse",
                                     pre_done |-> \A j \in 2..Len(clips_to_fuse) : pre[j],
                                     bulk |-> bulk, fallback |-> NoneVal]
                  /\ performed' = performed \cup {"boolean"}
                  /\ pc' = IF valid_fuse THEN "validate_final" ELSE "fuse_fallback"
    /\ UNCHANGED <<status, place_log, runtime_params, thicken_log, thickened_body, last_log,
                   groove_params, clip_params, is_valid, derived, loc_i,
                   grooves_to_cut, clips_to_fuse, final_valid, result,
                   shape, shape_of, placement, summary>>

\* lines 257-264: the sequential fuse, outside any try
FuseFallback ==
    /\ pc = "fuse_fallback"
    /\ \E is_done \in [1..Len(clips_to_fuse) -> BOOLEAN], raises \in BOOLEAN :
        IF raises THEN
            /\ Raise
            /\ UNCHANGED <<final_solid, stage_trace>>
        ELSE
            /\ final_solid' = Some(SequentialFuse(The(final_solid), clips_to_fuse,
                                                  is_done))
            /\ stage_trace' = [stage_trace EXCEPT !.fallback = Some(is_done)]
            /\ pc' = "validate_final"
            /\ result' = result
    /\ performed' = performed \cup {"boolean"}
    /\ UNCHANGED <<status, place_log, runtime_params, thicken_log, thickened_body, last_log,
                   groove_params, clip_params, is_valid, derived, loc_i,
                   grooves_to_cut, clips_to_fuse, final_valid,
                   shape, shape_of, placement, summary>>

\* PHASE 5: check_validity(final_solid, "Final Output"), its value dropped
FinalValidation ==
    /\ pc = "validate_final"
    /\ \E analyzer_valid \in BOOLEAN :
        /\ final_valid' = Some(analyzer_valid)
        /\ last_log' = IF analyzer_valid THEN "Final Output is VALID."
                       ELSE "Final Output is INVALID."
    /\ performed' = performed \cup {"check_final"}
    /\ pc' = "export"
    /\ UNCHANGED <<status, place_log, runtime_params, thicken_log, thickened_body, groove_params,
                   clip_params, is_valid, derived, loc_i, grooves_to_cut,
                   clips_to_fuse, final_solid, stage_trace, result,
                   shape, shape_of, placement, summary>>

\* the IFSelect_ReturnStatus values writer.Write may return: RetVoid, RetDone
\* (the 1 the code tests for), RetError
WriteStatuses == {0, 1, 2}

\* Export whose return also depends on the STL preview having been written
Export_StlFailureFails ==
    /\ pc = "export"
    /\ \E write_status \in WriteStatuses, stl_raises \in BOOLEAN :
        /\ status' = Some(write_status)
        /\ last_log' = IF stl_raises THEN "Warning: Could not generate STL preview"
                       ELSE "Generating preview STL"
        /\ IF write_status = 1 /\ ~stl_raises THEN Return(TRUE, "Success")
           ELSE Return(FALSE, "Export Failed")
    /\ performed' = performed \cup {"export_step", "export_stl"}
    /\ UNCHANGED <<place_log, runtime_params, thicken_log, thickened_body, groove_params,
                   clip_params, is_valid, derived, loc_i, grooves_to_cut,
                   clips_to_fuse, final_solid, stage_trace, final_valid,
                   shape, shape_of, placement, summary>>

\* PHASE 6: the STEP write, the STL preview inside try/except, the return
Export ==
    /\ pc = "export"
    /\ \E write_status \in WriteStatuses, stl_raises \in BOOLEAN :
        /\ status' = Some(write_status)
        /\ last_log' = IF stl_raises THEN "Warning: Could not generate STL preview"
                       ELSE "Generating preview STL"
        /\ IF write_status = 1 THEN Return(TRUE, "Success")
           ELSE Return(FALSE, "Export Failed")
    /\ performed' = performed \cup {"export_step", "export_stl"}
    /\ UNCHANGED <<place_log, runtime_params, thicken_log, thickened_body, groove_params,
                   clip_params, is_valid, derived, loc_i, grooves_to_cut,
                   clips_to_fuse, final_solid, stage_trace, final_valid,
                   shape, shape_of, placement, summary>>

Next ==
    \/ Phase1Import
    \/ ThickenNegative
    \/ ThickenPositive
    \/ VolumeCheck
    \/ GeometryCheck
    \/ Phase4Setup
    \/ PlaceOne
    \/ CutBulk
    \/ CutFallback
    \/ FuseBulk
    \/ FuseFallback
    \/ FinalValidation
    \/ Export

Spec == Init /\ [][Next]_vars

\* run_pipeline is one call on one thread: a run that has not returned or
\* raised takes its next step.  The runs followed to their end are those of
\* the nominal feature with one or two target locations.
LiveRuns == {r \in CountRuns : r.groove_count \in {1, 2}}
LiveInit == Init /\ runtime_params \in LiveRuns
SpecLive == LiveInit /\ [][Next]_vars /\ WF_vars(Next)

\* ================================================= the generators, directly
\* verify_clip_height.py's use of the two classes: a GrooveParameters and a
\* ClipParameters are built from given fields (length is a field of its own,
\* 10.0 unless given), a ClipGenerator is built on them, and the methods are
\* called in any order.
Fillets == {NoFillet, <<1, 2>>}
UnitDims == 1..(MaxDim + 1)
UnitClearances == -1..(MaxDim + 1)
NominalRun ==
    [thickness |-> 2, groove_count |-> 1, groove_shape |-> RECTANGULAR,
     groove_height |-> 2, groove_width |-> 2, groove_depth |-> 1,
     clip_height |-> 1, assembly_clearance |-> 0, retention_offset |-> 0]

UnitInit ==
    /\ pc = "unit"
    /\ \E w \in UnitDims, d \in UnitDims, h \in Dims, l \in Dims, t \in GrooveType,
          f \in Fillets, ch \in ClipHeights, c \in UnitClearances,
          r \in UnitClearances :
        /\ groove_params = Some(GrooveParameters(w, d, h, l, t, f))
        /\ clip_params = Some(ClipParameters(GrooveParameters(w, d, h, l, t, f), ch, c, r))
    /\ runtime_params = NominalRun
    /\ thicken_log = <<>>
    /\ thickened_body = NoneVal
    /\ last_log = ""
    /\ is_valid = NoneVal
    /\ derived = NoneVal
    /\ loc_i = 0
    /\ grooves_to_cut = <<>>
    /\ clips_to_fuse = <<>>
    /\ final_solid = NoneVal
    /\ stage_trace = NoTrace
    /\ final_valid = NoneVal
    /\ status = NoneVal
    /\ place_log = <<>>
    /\ performed = {}
    /\ result = NoneVal
    /\ shape = NoShape
    /\ shape_of = "none"
    /\ placement = NoPlaced
    /\ summary = NoneVal

\* generator.derive_from_groove()
UnitDerive ==
    /\ pc = "unit"
    /\ derived' = Some(derive_from_groove(The(clip_params), derived))
    /\ UNCHANGED <<pc, pipeline_vars, groove_params, clip_params, is_valid, shape,
                   shape_of, placement, summary>>

\* generator.create_shape() of the ClipGenerator
UnitClipCreateShape ==
    /\ pc = "unit"
    /\ LET derived_params == derive_from_groove(The(clip_params), derived)
       IN  /\ derived' = Some(derived_params)
           /\ shape' = ClipGenerator_create_shape(The(clip_params), derived_params)
    /\ shape_of' = "clip"
    /\ UNCHANGED <<pc, pipeline_vars, groove_params, clip_params, is_valid, placement,
                   summary>>

\* GrooveGenerator(groove_params).create_shape()
UnitGrooveCreateShape ==
    /\ pc = "unit"
    /\ shape' = GrooveGenerator_create_shape(The(groove_params))
    /\ shape_of' = "groove"
    /\ UNCHANGED <<pc, pipeline_vars, groove_params, clip_params, is_valid, derived,
                   placement, summary>>

UnitNext ==
    \/ UnitDerive
    \/ UnitClipCreateShape
    \/ UnitGrooveCreateShape

SpecGen == UnitInit /\ [][UnitNext]_vars

\* ------------------------------------------- placement and summary, directly
\* a caller that also places the shapes it built, reads the summary and, the
\* ClipParameters dataclass being mutable, assigns the clip height between
\* calls; the groove is the square-sectioned one of unit length with no
\* clearance
Tangents == {"tx", "ty"}
UseInit ==
    /\ UnitInit
    /\ LET cp == The(clip_params)
           gp == cp.groove_params
       IN  /\ gp.fillet_radius = NoFillet
           /\ gp.depth = gp.width
           /\ gp.height = 1
           /\ gp.length = 1
           /\ cp.height = 1
           /\ cp.assembly_clearance = 0
           /\ cp.retention_offset = 0

\* GrooveGenerator(groove_params).place_shape(shape, location, normal, tangent)
UnitGroovePlace ==
    /\ pc = "unit"
    /\ shape_of = "groove"
    /\ \E k \in 1..NumCentroids, normal \in Normals,
          tangent \in {NoneVal} \cup {Some(t) : t \in Tangents} :
        placement' = [by |-> "groove", params |-> The(groove_params), shape |-> shape,
                      location |-> REFERENCE_CENTROIDS[k], normal |-> normal,
                      tangent |-> tangent,
                      result |-> GrooveGenerator_place_shape(
                                     The(groove_params), shape, REFERENCE_CENTROIDS[k],
                                     normal, tangent)]
    /\ UNCHANGED <<pc, pipeline_vars, groove_params, clip_params, is_valid, derived,
                   shape, shape_of, summary>>

\* generator.place_shape(shape, location, normal, tangent) of the ClipGenerator
UnitClipPlace ==
    /\ pc = "unit"
    /\ shape_of = "clip"
    /\ \E k \in 1..NumCentroids, normal \in Normals,
          tangent \in {NoneVal} \cup {Some(t) : t \in Tangents} :
        LET derived_params == derive_from_groove(The(clip_params), derived)
        IN  /\ derived' = Some(derived_params)
            /\ placement' = [by |-> "clip", params |-> derived_params, shape |-> shape,
                             location |-> REFERENCE_CENTROIDS[k], normal |-> normal,
                             tangent |-> tangent,
                             result |-> ClipGenerator_place_shape(
                                            derived_params, shape, REFERENCE_CENTROIDS[k],
                                            normal, tangent)]
    /\ UNCHANGED <<pc, pipeline_vars, groove_params, clip_params, is_valid, shape,
                   shape_of, summary>>

\* generator.get_dimensions_summary()
UnitSummary ==
    /\ pc = "unit"
    /\ LET derived_params == derive_from_groove(The(clip_params), derived)
       IN  /\ derived' = Some(derived_params)
           /\ summary' = Some(get_dimensions_summary(The(clip_params), derived_params))
    /\ UNCHANGED <<pc, pipeline_vars, groove_params, clip_params, is_valid, shape,
                   shape_of, placement>>

\* clip_params.height = h, by the caller that holds the ClipParameters object
UnitSetClipHeight ==
    /\ pc = "unit"
    /\ \E h \in ClipHeights \ {The(clip_params).height} :
        clip_params' = Some([The(clip_params) EXCEPT !.height = h])
    /\ UNCHANGED <<pc, pipeline_vars, groove_params, is_valid, derived, shape,
                   shape_of, placement, summary>>

UseNext ==
    \/ UnitDerive
    \/ UnitClipCreateShape
    \/ UnitGrooveCreateShape
    \/ UnitGroovePlace
    \/ UnitClipPlace
    \/ UnitSummary
    \/ UnitSetClipHeight

SpecUse == UseInit /\ [][UseNext]_vars

\* ================================================================= claims

\* run_pipeline has called clip_params.validate()
Validated == pc # "unit" /\ ~IsNone(is_valid)
ShapeOps == {"create_shape", "place", "boolean", "export_step", "export_stl"}
ClearanceMessage(cp) ==
    Msg("Assembly clearance (%1mm) must be less than groove width (%2mm)",
        <<cp.assembly_clearance, cp.groove_params.width>>)
\* run_pipeline returned (False, "Invalid clip parameters: <m>") and built nothing
RejectedWith(m) ==
    /\ ~The(is_valid)[1]
    /\ The(is_valid)[2] = m
    /\ pc = "done"
    /\ result = Some(<<FALSE, Msg("Invalid clip parameters: " \o m.text, m.args)>>)
    /\ performed \cap ShapeOps = {}

\* C1 as stated: whenever the assembly clearance is at least the groove width,
\* validate fails with the message that names the clearance and the width, and
\* run_pipeline returns (False, message) having built, combined and exported
\* nothing.
C1_ClearanceRejectedNamingWidth ==
    (Validated /\ The(clip_params).assembly_clearance
                      >= The(clip_params).groove_params.width)
    => RejectedWith(ClearanceMessage(The(clip_params)))

\* C1 as amended: with the clearance at least the groove width, validate always
\* fails and run_pipeline returns (False, message) having built, combined and
\* exported nothing; the message names the clearance and the width when the
\* clip height is positive, and is "Clip height must be positive" otherwise.
C1_ClearanceRejected ==
    (Validated /\ The(clip_params).assembly_clearance
                      >= The(clip_params).groove_params.width)
    => IF The(clip_params).height > 0
       THEN RejectedWith(ClearanceMessage(The(clip_params)))
       ELSE RejectedWith(Msg("Clip height must be positive", <<>>))

C1_Witness ==
    /\ Validated
    /\ The(clip_params).assembly_clearance >= The(clip_params).groove_params.width
    /\ The(clip_params).height > 0
    /\ pc = "done"

\* C2 as stated: once validate has returned success (so whenever a feature
\* shape is built) 0 < clearance < groove width and 0 < offset < groove depth.
C2_ClearancesStrictlyPositive ==
    /\ ("create_shape" \in performed) => (Validated /\ The(is_valid)[1])
    /\ (Validated /\ The(is_valid)[1]) =>
           LET cp == The(clip_params) IN
           /\ 0 < cp.assembly_clearance
           /\ cp.assembly_clearance < cp.groove_params.width
           /\ 0 < cp.retention_offset
           /\ cp.retention_offset < cp.groove_params.depth

\* C2 as amended: a feature shape is built only after validate returned
\* success, and then clearance < groove width, offset < groove depth (so the
\* derived width and depth are positive) and the clip height is positive; no
\* lower bound on the clearance or the offset is enforced.
C2_ClearancesBelowGroove ==
    /\ ("create_shape" \in performed) => (Validated /\ The(is_valid)[1])
    /\ (Validated /\ The(is_valid)[1]) =>
           LET cp == The(clip_params) IN
           /\ cp.assembly_clearance < cp.groove_params.width
           /\ cp.retention_offset < cp.groove_params.depth
           /\ cp.groove_params.width - cp.assembly_clearance > 0
           /\ cp.groove_params.depth - cp.retention_offset > 0
           /\ cp.height > 0

C2_Witness ==
    /\ "create_shape" \in performed
    /\ Len(clips_to_fuse) > 0
    /\ The(clip_params).assembly_clearance > 0
    /\ The(clip_params).retention_offset > 0

\* the generators used directly, on the ClipParameters cp
Unit == pc = "unit"
DerivationPrecondition(cp) ==
    /\ cp.groove_params.width > 0
    /\ cp.groove_params.depth > 0
    /\ 0 < cp.assembly_clearance
    /\ cp.assembly_clearance < cp.groove_params.width
    /\ 0 < cp.retention_offset
    /\ cp.retention_offset < cp.groove_params.depth

\* C3: for width > 0, depth > 0, 0 < clearance < width and 0 < offset < depth,
\* the parameters derive_from_groove returns have width = source width -
\* clearance > 0, depth = source depth - offset > 0, height = the clip height
\* and the source's shape kind.
C3_Derivation ==
    (Unit /\ ~IsNone(derived) /\ DerivationPrecondition(The(clip_params))) =>
        LET cp == The(clip_params)
            g == The(derived)
        IN  /\ g.width = cp.groove_params.width - cp.assembly_clearance
            /\ g.width > 0
            /\ g.depth = cp.groove_params.depth - cp.retention_offset
            /\ g.depth > 0
            /\ g.height = cp.height
            /\ g.type = cp.groove_params.type

C3_Witness ==
    /\ Unit
    /\ ~IsNone(derived)
    /\ DerivationPrecondition(The(clip_params))
    /\ The(clip_params).groove_params.type = TRIANGLE
    /\ The(clip_params).assembly_clearance # The(clip_params).retention_offset

\* C4: for each of the four shape kinds and every retention offset r and source
\* depth d that validate accepts, the shape ClipGenerator.create_shape returns
\* occupies local Z in [-d, -r]: far face at Z = -d, near face at Z = -r.
C4_Recess ==
    (Unit /\ shape_of = "clip" /\ shape.tag = "shape"
          /\ validate(The(clip_params))[1]
          /\ The(clip_params).assembly_clearance > 0
          /\ The(clip_params).retention_offset > 0) =>
        /\ shape.zmin = Num(-The(clip_params).groove_params.depth)
        /\ shape.zmax = Num(-The(clip_params).retention_offset)

\* C5: a rectangular GrooveParameters with height h > 0, whatever its length,
\* builds a shape whose extent along local Y is exactly h.
C5_HeightFidelity ==
    (Unit /\ shape_of = "groove" /\ shape.tag = "shape"
          /\ The(groove_params).type = RECTANGULAR
          /\ The(groove_params).height > 0) =>
        CSub(shape.ymax, shape.ymin) = Num(The(groove_params).height)

\* C6: for a rectangular source groove of any height and length, the clip shape
\* ClipGenerator.create_shape builds with clip height h > 0 has extent exactly h
\* along Y.
C6_ClipHeight ==
    (Unit /\ shape_of = "clip" /\ shape.tag = "shape"
          /\ The(clip_params).groove_params.type = RECTANGULAR
          /\ The(clip_params).height > 0) =>
        CSub(shape.ymax, shape.ymin) = Num(The(clip_params).height)

C6_Witness ==
    /\ Unit
    /\ shape_of = "clip"
    /\ shape.tag = "shape"
    /\ The(clip_params).groove_params.type = RECTANGULAR
    /\ The(clip_params).height > 0
    /\ The(clip_params).groove_params.height # The(clip_params).height
    /\ The(clip_params).groove_params.length # The(clip_params).height

\* the phases that follow thickening
AfterThickening == {"volume", "distance", "validate", "create_shape", "place",
                    "boolean", "check_final", "export_step", "export_stl"}
ThickenStarted ==
    pc \in {"thicken_pos", "volume", "distance", "params", "place", "cut",
            "cut_fallback", "fuse", "fuse_fallback", "validate_final", "export"}

\* C7: the offset -|t| is attempted first; +|t| is attempted exactly when the
\* first attempt reported it did not complete, and its result is the thickened
\* body when it completes; when both report incompletion run_pipeline returns
\* (False, "Thickening failed.") and performs no later phase.
C7_ThickenFallback ==
    LET t == runtime_params.thickness
        n == Len(thicken_log)
    IN  /\ n <= 2
        /\ ThickenStarted => n >= 1
        /\ n >= 1 => thicken_log[1][1] = -Abs(t)
        /\ n = 2 => (thicken_log[2][1] = Abs(t) /\ thicken_log[1][2] = "notdone")
        /\ (n >= 1 /\ thicken_log[1][2] = "notdone" /\ pc # "thicken_pos") => n = 2
        /\ (n >= 1 /\ thicken_log[1][2] = "done") =>
               (~IsNone(thickened_body) /\ The(thickened_body).offset = -Abs(t))
        /\ (n = 2 /\ thicken_log[2][2] = "done") =>
               (~IsNone(thickened_body) /\ The(thickened_body).offset = Abs(t))
        /\ (n = 2 /\ thicken_log[2][2] = "notdone") =>
               /\ pc = "done"
               /\ result = Some(<<FALSE, Msg("Thickening failed.", <<>>)>>)
               /\ performed \cap AfterThickening = {}
        /\ (performed \cap AfterThickening # {}) =>
               (n >= 1 /\ thicken_log[n][2] = "done")

C7_Witness ==
    /\ Len(thicken_log) = 2
    /\ thicken_log[1][2] = "notdone"
    /\ thicken_log[2][2] = "done"
    /\ The(thickened_body).offset = Abs(runtime_params.thickness)
    /\ pc = "done"
    /\ The(result)[1]

\* an assembly stage has run to its end
CutStageOver == stage_trace.stage = "cut" /\ pc = "fuse"
FuseStageOver == stage_trace.stage = "fuse" /\ pc \in {"validate_final", "export", "done"}
BulkIncomplete == ~stage_trace.pre_done \/ stage_trace.bulk = "incomplete"
\* the tools whose own operation in the sequential fallback completed
CompletedInFallback(tools) ==
    {tools[k].location : k \in {j \in 1..Len(tools) : The(stage_trace.fallback)[j]}}

\* C8: in each assembly stage, whenever a boolean of the bulk strategy (a
\* pairwise pre-combination union or the body-vs-compound operation) is
\* incomplete, the sequential fallback is run and the stage's final body holds
\* every tool whose own operation against the running result completed.
C8_AssemblyDegradation ==
    /\ (CutStageOver /\ BulkIncomplete) =>
           /\ ~IsNone(stage_trace.fallback)
           /\ The(final_solid).cut = CompletedInFallback(grooves_to_cut)
    /\ (FuseStageOver /\ BulkIncomplete) =>
           /\ ~IsNone(stage_trace.fallback)
           /\ The(final_solid).fused = CompletedInFallback(clips_to_fuse)

\* C9: a final solid that check_validity reports invalid is never exported and
\* never yields success: every run that returns (True, ...) had a final solid
\* that passed the validity check.
C9_FinalValidityGate ==
    (~IsNone(final_valid) /\ ~The(final_valid)) =>
        /\ "export_step" \notin performed
        /\ ~IsNone(result) => ~The(result)[1]

\* C10: run_pipeline ends by returning a (success, message) pair; no exception
\* leaves it.
C10_NoExceptionEscapes == pc # "raised"

Returned(ok, text) == pc = "done" /\ result = Some(<<ok, Msg(text, <<>>)>>)
StlPreviewFailed == last_log = "Warning: Could not generate STL preview"

\* C11: the export step is reached only with a non-null final solid;
\* run_pipeline returns (True, "Success") if and only if the STEP write returned
\* the success status, returns (False, "Export Failed") when it returned
\* anything else, and the outcome is the same whether or not the STL preview
\* could be written.
C11_ExportOutcome ==
    /\ (pc = "export" \/ "export_step" \in performed) => ~IsNone(final_solid)
    /\ "export_step" \in performed <=> ~IsNone(status)
    /\ (~IsNone(result) /\ The(result)[1]) =>
           (Returned(TRUE, "Success") /\ status = Some(1))
    /\ status = Some(1) => Returned(TRUE, "Success")
    /\ (~IsNone(status) /\ status # Some(1)) => Returned(FALSE, "Export Failed")

C11_Witness ==
    /\ status = Some(1)
    /\ StlPreviewFailed
    /\ Returned(TRUE, "Success")
    /\ The(final_solid).fused # {}

\* phase 1 logged that the file could not be read or that the imported shape
\* failed the validity check
InputRejected ==
    last_log \in {"Error: Could not read file.",
                  "Critical Error: Input geometry corrupted."}
NothingProcessed ==
    /\ performed \subseteq {"read", "check_input"}
    /\ thicken_log = <<>>
    /\ IsNone(thickened_body)
    /\ grooves_to_cut = <<>>
    /\ clips_to_fuse = <<>>
    /\ IsNone(final_solid)
    /\ IsNone(status)

\* C12: when the input file cannot be read or the imported shape fails the
\* validity check, run_pipeline returns failure at once: no thickening, no
\* feature construction, no boolean and no export has been or will be made.
C12_InputCorruptedAborts ==
    /\ InputRejected =>
           /\ NothingProcessed
           /\ \/ Returned(FALSE, "Could not read STEP file.")
              \/ Returned(FALSE, "Input geometry corrupted.")
    /\ (last_log = "Error: Could not read file.") =>
           Returned(FALSE, "Could not read STEP file.")
    /\ (last_log = "Critical Error: Input geometry corrupted.") =>
           (Returned(FALSE, "Input geometry corrupted.") /\ "check_input" \in performed)
    /\ (pc # "import" /\ ~InputRejected) => {"read", "check_input"} \subseteq performed

C12_Witness ==
    /\ Returned(FALSE, "Input geometry corrupted.")
    /\ performed = {"read", "check_input"}

\* the answers of the kernel that make the loop skip a target location
SkipAnswers == {"no_solution", "not_face", "no_normal"}
AllSkipped == \A k \in 1..Len(place_log) : place_log[k] \in SkipAnswers
PlacementOver ==
    pc \in {"cut", "cut_fallback", "fuse", "fuse_fallback", "validate_final",
            "export"} \/ (pc = "done" /\ ~IsNone(final_solid))
\* the anchor points among the first k whose answer was a face with a normal
RECURSIVE PlacedUpTo(_)
PlacedUpTo(k) ==
    IF k = 0 THEN <<>>
    ELSE IF place_log[k] = "normal"
         THEN Append(PlacedUpTo(k - 1), locations_to_process[k])
         ELSE PlacedUpTo(k - 1)
AnchorsOf(placed) == [k \in 1..Len(placed) |-> placed[k].location]

\* C13: a target location whose nearest element is not a face, or whose normal
\* is undefined, adds no groove and no clip and never ends the run; the other
\* locations are all taken, in list order; and a run in which every location
\* was skipped goes on through assembly to the export of the thickened body
\* unchanged.
C13_SkippedLocations ==
    /\ (pc # "raised" /\ pc # "unit") =>
           /\ Len(place_log) = loc_i
           /\ AnchorsOf(grooves_to_cut) = PlacedUpTo(loc_i)
           /\ AnchorsOf(clips_to_fuse) = PlacedUpTo(loc_i)
    /\ PlacementOver => loc_i = Len(locations_to_process)
    /\ (place_log # <<>> /\ AllSkipped) =>
           /\ pc # "raised"
           /\ pc = "done" => "export_step" \in performed
           /\ "boolean" \notin performed
           /\ ~IsNone(final_solid) => final_solid = thickened_body

C13_Witness ==
    /\ place_log = <<"no_normal", "normal">>
    /\ Returned(TRUE, "Success")
    /\ The(final_solid).cut = {REFERENCE_CENTROIDS[2]}
    /\ The(final_solid).fused = {REFERENCE_CENTROIDS[2]}

\* C14: for every count in the accepted range, exactly the first `count`
\* reference points are taken by the placement loop, in list order.
C14_FirstCountProcessed ==
    PlacementOver =>
        /\ loc_i = runtime_params.groove_count
        /\ Len(locations_to_process) = runtime_params.groove_count
        /\ \A k \in 1..loc_i : locations_to_process[k] = REFERENCE_CENTROIDS[k]

\* C15: whenever run_pipeline calls GrooveGenerator.create_shape, the groove
\* parameters have width > 0, depth > 0 and height > 0.
C15_GrooveDimensionsPositive ==
    (pc # "unit" /\ "create_shape" \in performed) =>
        /\ The(groove_params).width > 0
        /\ The(groove_params).depth > 0
        /\ The(groove_params).height > 0

\* the booleans of one kind among those that made the final solid
OpsOf(kind) ==
    LET h == The(final_solid).history
    IN  {k \in 1..Len(h) : h[k][1] = kind}
FallbackRun == ~IsNone(stage_trace.fallback)

\* C16: in the cut stage and in the fuse stage alike, the sequential fallback
\* is run if and only if the bulk body-vs-compound operation did not report
\* completion, and when it did the stage's result is that one bulk operation's
\* result.
C16_SameProtocolBothStages ==
    /\ CutStageOver =>
           /\ FallbackRun <=> stage_trace.bulk # "done"
           /\ stage_trace.bulk = "done" => Cardinality(OpsOf("cut")) = 1
    /\ FuseStageOver =>
           /\ FallbackRun <=> stage_trace.bulk # "done"
           /\ stage_trace.bulk = "done" => Cardinality(OpsOf("fuse")) = 1

\* the running result after tool k of a sequential fallback that started from
\* body: op(previous result, tool k) when that boolean completed, the previous
\* result otherwise
RECURSIVE RunningResult(_, _, _, _, _)
RunningResult(kind, body, tools, done, k) ==
    IF k = 0 THEN body
    ELSE LET previous == RunningResult(kind, body, tools, done, k - 1)
         IN  IF ~done[k] THEN previous
             ELSE IF kind = "cut"
                  THEN BRepAlgoAPI_Cut(previous, {tools[k].location})
                  ELSE BRepAlgoAPI_Fuse(previous, {tools[k].location})
FallbackInvariant ==
    /\ pc = "cut_fallback" => final_solid = thickened_body
    /\ pc = "fuse_fallback" => OpsOf("fuse") = {}
    /\ (CutStageOver /\ FallbackRun) =>
           /\ Len(The(stage_trace.fallback)) = Len(grooves_to_cut)
           /\ final_solid = Some(RunningResult("cut", The(thickened_body), grooves_to_cut,
                                               The(stage_trace.fallback),
                                               Len(grooves_to_cut)))
    /\ (FuseStageOver /\ FallbackRun) =>
           Len(The(stage_trace.fallback)) = Len(clips_to_fuse)
FallbackStep ==
    /\ (pc = "cut_fallback" /\ pc' # "raised") => pc' = "fuse"
    /\ (pc = "fuse_fallback" /\ pc' # "raised") =>
           /\ pc' = "validate_final"
           /\ final_solid' = Some(RunningResult("fuse", The(final_solid), clips_to_fuse,
                                                The(stage_trace'.fallback),
                                                Len(clips_to_fuse)))

\* C17: the sequential fallback of either stage starts from the body the stage
\* received, attempts every tool once in list order, replaces the running
\* result by op(result, tool) when the boolean completed and keeps it
\* otherwise, and goes on to the next tool and the next stage after an
\* incomplete boolean.
C17_SequentialFallback == []FallbackInvariant /\ [][FallbackStep]_vars

C17_Witness ==
    /\ FuseStageOver
    /\ FallbackRun
    /\ The(stage_trace.fallback) = <<FALSE, TRUE>>
    /\ The(final_solid).history =
           <<<<"cut", {REFERENCE_CENTROIDS[2]}>>, <<"fuse", {REFERENCE_CENTROIDS[2]}>>>>

IsPrefix(s, t) == Len(s) <= Len(t) /\ SubSeq(t, 1, Len(s)) = s
\* no subtraction was applied to a body that already had a clip united with it
CutsBeforeFuses ==
    ~IsNone(final_solid) =>
        LET h == The(final_solid).history
        IN  \A i \in 1..Len(h) : \A j \in 1..Len(h) :
                (h[i][1] = "fuse" /\ h[j][1] = "cut") => j < i
AssemblyOrder ==
    /\ CutsBeforeFuses
    /\ (pc \in {"cut_fallback", "fuse", "fuse_fallback"}) => OpsOf("fuse") = {}
    /\ pc = "fuse" =>
           /\ [The(final_solid) EXCEPT !.cut = {}, !.history = <<>>] = The(thickened_body)
           /\ (final_solid = thickened_body) <=> (The(final_solid).cut = {})
           /\ grooves_to_cut = <<>> => final_solid = thickened_body
\* a step of the fuse stage keeps every subtraction and only adds unions
FuseStep ==
    (pc \in {"fuse", "fuse_fallback"} /\ pc' # "raised") =>
        LET h == The(final_solid).history
            hn == The(final_solid').history
        IN  /\ IsPrefix(h, hn)
            /\ \A k \in (Len(h) + 1)..Len(hn) : hn[k][1] = "fuse"
            /\ The(final_solid').cut = The(final_solid).cut

\* C18: all groove subtractions, bulk and fallback, are made before any clip
\* union with the body, and the fuse stage works on the result of the cut
\* stage, which is the thickened body itself only when no groove was cut.
C18_CutThenFuse == []AssemblyOrder /\ [][FuseStep]_vars

C18_Witness ==
    /\ pc = "validate_final"
    /\ stage_trace.stage = "fuse"
    /\ stage_trace.bulk = "done"
    /\ The(final_solid).history =
           <<<<"cut", {REFERENCE_CENTROIDS[1]}>>, <<"cut", {REFERENCE_CENTROIDS[2]}>>,
             <<"fuse", {REFERENCE_CENTROIDS[1], REFERENCE_CENTROIDS[2]}>>>>

ThickenSucceeded == pc # "unit" /\ ~IsNone(thickened_body)
VolumeInvariant ==
    /\ pc = "volume" => ~The(thickened_body).reversed
    /\ pc = "distance" =>
           (The(thickened_body).reversed
                <=> last_log = "Notice: Negative Volume detected. Reversing orientation...")
    /\ pc \in {"volume", "distance", "params"} => (ThickenSucceeded /\ IsNone(result))
    /\ (ThickenSucceeded /\ pc \in {"done", "raised"}) => Validated
\* the orientation is settled by the volume test and by nothing after it, and
\* the deviation test goes on to the parameters whatever it measured
VolumeStep ==
    /\ (ThickenSucceeded /\ pc # "volume") =>
           The(thickened_body').reversed = The(thickened_body).reversed
    /\ pc = "volume" => pc' = "distance"
    /\ pc = "distance" => (pc' = "params" /\ thickened_body' = thickened_body)
    /\ pc = "params" => ~IsNone(is_valid')

\* C19: after a successful thicken a negative signed volume reverses the
\* orientation of the thickened solid exactly once, a deviation above the
\* tolerance only logs a warning, neither makes run_pipeline return, and the
\* run goes on to the validation of the clip parameters.
C19_VolumeAndDeviationNonFatal ==
    /\ []VolumeInvariant
    /\ [][VolumeStep]_vars
    /\ (ThickenSucceeded ~> Validated)

C19_Witness ==
    /\ pc = "params"
    /\ last_log = "Warning: Deviation detected."
    /\ The(thickened_body).reversed

\* C20: for the triangular kind the shape GrooveGenerator.create_shape builds
\* does not depend on the depth field: the base vertices are on Z = 0, the
\* apex is at Z = -width*sqrt(3)/2, and any other depth gives the same shape.
C20_TriangleIgnoresDepth ==
    (Unit /\ shape_of = "groove" /\ shape.tag = "shape"
          /\ The(groove_params).type = TRIANGLE) =>
        /\ shape.zmax = Num(0)
        /\ shape.zmin = <<0, -The(groove_params).width>>
        /\ \A d \in UnitDims :
               GrooveGenerator_create_shape([The(groove_params) EXCEPT !.depth = d]) = shape

\* a direct place_shape call has been made
Placed == pc = "unit" /\ placement.by # "none"

\* C21: the tangent is never applied: for every shape, location, normal and
\* shape kind, both place_shape methods return, whatever the tangent, the shape
\* they return for no tangent: local Z turned onto the normal, then moved to
\* the location, and nothing else.
C21_TangentIgnored ==
    Placed =>
        /\ placement.result =
               [shape |-> placement.shape, location |-> placement.location,
                normal |-> placement.normal, in_plane |-> DefaultInPlane]
        /\ placement.result =
               IF placement.by = "groove"
               THEN GrooveGenerator_place_shape(placement.params, placement.shape,
                        placement.location, placement.normal, NoneVal)
               ELSE ClipGenerator_place_shape(placement.params, placement.shape,
                        placement.location, placement.normal, NoneVal)

C21_Witness ==
    /\ Placed
    /\ placement.by = "clip"
    /\ placement.tangent = Some("tx")
    /\ placement.params.type = TRIANGLE
    /\ placement.normal = "ny"

\* every value a method of the ClipGenerator got from derive_from_groove is the
\* cached one
SameDerivedEverywhere ==
    (pc = "unit" /\ ~IsNone(derived)) =>
        LET g == The(derived)
            cp == The(clip_params)
        IN  /\ g.width = cp.groove_params.width - cp.assembly_clearance
            /\ g.depth = cp.groove_params.depth - cp.retention_offset
            /\ g.type = cp.groove_params.type
            /\ (shape_of = "clip") => shape = ClipGenerator_create_shape(cp, g)
            /\ (placement.by = "clip") => placement.params = g
            /\ ~IsNone(summary) =>
                   /\ The(summary).width = g.width
                   /\ The(summary).depth = g.depth
                   /\ The(summary).shape_type = g.type
\* no call of any method before derive_from_groove has run leaves the cache
\* empty, and once filled the cache never changes
CachedOnce ==
    /\ ~IsNone(derived) => derived' = derived
    /\ (shape_of' = "clip" \/ placement'.by = "clip" \/ ~IsNone(summary')) =>
           ~IsNone(derived')

\* C22: derivation is memoized per ClipGenerator: the derived parameters are
\* computed by the first call of derive_from_groove and every later call, from
\* create_shape, place_shape or get_dimensions_summary, returns that value, so
\* all clip instances share one derived width, depth, height and kind.
C22_DerivationMemoized == []SameDerivedEverywhere /\ [][CachedOnce]_vars

C22_Witness ==
    /\ pc = "unit"
    /\ ~IsNone(derived)
    /\ The(derived).height # The(clip_params).height
    /\ shape_of = "clip"
    /\ placement.by = "clip"
    /\ ~IsNone(summary)
    /\ The(summary).height # The(derived).height

\* C23: throughout the placement loop the groove tool list and the clip tool
\* list have the same length, at most min(count, number of reference points),
\* and the i-th groove and the i-th clip were placed at the same anchor point
\* with the same surface normal.
C23_ToolListsAligned ==
    pc # "unit" =>
        /\ Len(grooves_to_cut) = Len(clips_to_fuse)
        /\ Len(grooves_to_cut) <= Min(runtime_params.groove_count, Len(REFERENCE_CENTROIDS))
        /\ Len(grooves_to_cut) <= loc_i
        /\ \A i \in 1..Len(grooves_to_cut) :
               /\ grooves_to_cut[i].location = clips_to_fuse[i].location
               /\ grooves_to_cut[i].normal = clips_to_fuse[i].normal
               /\ grooves_to_cut[i].in_plane = clips_to_fuse[i].in_plane

C23_Witness ==
    /\ pc = "place"
    /\ runtime_params.groove_count > Len(REFERENCE_CENTROIDS)
    /\ Len(clips_to_fuse) = 1
    /\ clips_to_fuse[1].normal = "ny"
    /\ clips_to_fuse[1].location = REFERENCE_CENTROIDS[1]

====
